---- MODULE Spec2Model ----
(***************************************************************************)
(* Pairwise alignment with affine gap penalties                            *)
(* (Project/Pairwise_Alignment_Modified/task.py: fill_dp_table followed by *)
(* traceback_alignment_from_f_table) and the linear-gap fill of            *)
(* Project/Pairwise_Alignment/task.py.                                     *)
(*                                                                         *)
(* Conventions.  Python sequences are 0-indexed, TLA+ sequences 1-indexed: *)
(* the source's x[i - 1] is x[i] here and x[prev_i] is x[prev_i + 1].      *)
(* A table is a function on (0..m) \X (0..n); table[i][j] is               *)
(* table[<<i, j>>].  float('-inf') is the integer NegInf, below every      *)
(* score the bounded inputs can produce, with Plus keeping it absorbing.   *)
(* None is the empty tuple.  The score dict is a record of two partial     *)
(* functions: sub on symbol pairs, gap on the keys "alpha" and "beta".     *)
(***************************************************************************)
EXTENDS Integers, Sequences, FiniteSets, TLC

VARIABLES x, y, score, pc, i, j, k,
          m_score_table, i_score_table, d_score_table,
          m_prev_table, i_prev_table, d_prev_table,
          f_score_table, f_prev_table,
          path, aligned_x, aligned_y, final_score

vars == <<x, y, score, pc, i, j, k,
          m_score_table, i_score_table, d_score_table,
          m_prev_table, i_prev_table, d_prev_table,
          f_score_table, f_prev_table,
          path, aligned_x, aligned_y, final_score>>

(***************************************************************************)
(* Bounds of the model and the input sets drawn from them.                 *)
(***************************************************************************)
MaxTotal == 4

Alphabet == {"A", "C"}

SubVals == {-3, 2}

GapVals == {-2, -1}

GapKeys == {"alpha", "beta"}

NegInf == -1000

None == <<>>

Unallocated == <<>>

SeqsUpTo(len) == UNION {[1..l -> Alphabet] : l \in 0..len}

\* Pairs of sequences of total length at most MaxTotal, either possibly empty.
InputPairs ==
    {p \in SeqsUpTo(MaxTotal) \X SeqsUpTo(MaxTotal) : Len(p[1]) + Len(p[2]) <= MaxTotal}

Restrict(f, D) == [key \in D |-> f[key]]

\* Scoring models holding every key.
TotalModels ==
    {[sub |-> s, gap |-> g] : s \in [Alphabet \X Alphabet -> SubVals], g \in [GapKeys -> GapVals]}

\* Scoring models with exactly one key absent: a substitution pair or a gap
\* parameter (taken out of the match/mismatch models).
MissingModels ==
    LET Base == {sm \in TotalModels : /\ sm.sub[<<"A", "A">>] = sm.sub[<<"C", "C">>]
                                      /\ sm.sub[<<"A", "C">>] = sm.sub[<<"C", "A">>]}
    IN {[sub |-> Restrict(sm.sub, (Alphabet \X Alphabet) \ {p}), gap |-> sm.gap] :
            sm \in Base, p \in Alphabet \X Alphabet}
       \cup {[sub |-> sm.sub, gap |-> Restrict(sm.gap, GapKeys \ {key})] :
            sm \in Base, key \in GapKeys}

ScoringModels == TotalModels \cup MissingModels

\* The spec's concrete scenario: S(a,a) = 2, S(a,b) = -1, alpha = -2, beta = -1.
ScenarioX == <<"A", "C">>

ScenarioY == <<"A", "G", "C">>

ScenarioScore ==
    [sub |-> [p \in {"A", "C", "G"} \X {"A", "C", "G"} |-> IF p[1] = p[2] THEN 2 ELSE -1],
     gap |-> [key \in GapKeys |-> IF key = "alpha" THEN -2 ELSE -1]]

(***************************************************************************)
(* Python primitives.                                                      *)
(***************************************************************************)
\* float addition with -inf absorbing: float('-inf') + s == float('-inf').
Plus(a, b) == IF a = NegInf THEN NegInf ELSE a + b

\* max() over (value, state) tuples: lexicographic, so among equal values the
\* larger state number wins.
MaxTuple(opts) ==
    CHOOSE p \in opts : \A q \in opts : q[1] < p[1] \/ (q[1] = p[1] /\ q[2] <= p[2])

\* list.reverse()
Reverse(s) == [idx \in 1..Len(s) |-> s[Len(s) + 1 - idx]]

\* [[v] * (n + 1) for _ in range(m + 1)]
Grid(m, n, v) == [cell \in (0..m) \X (0..n) |-> v]

ScoreTotal(xs, ys, sc) ==
    /\ GapKeys \subseteq DOMAIN sc.gap
    /\ \A a \in 1..Len(xs), b \in 1..Len(ys) : <<xs[a], ys[b]>> \in DOMAIN sc.sub

(***************************************************************************)
(* fill_dp_table (affine), one operator per block of the function.  T is   *)
(* the record of the eight tables.                                         *)
(***************************************************************************)
\* lines 97-112: allocation and base initialisation
AllocateTables(m, n) ==
    [m_score_table |-> [Grid(m, n, NegInf) EXCEPT ![<<0, 0>>] = 0],
     i_score_table |-> Grid(m, n, NegInf),
     d_score_table |-> Grid(m, n, NegInf),
     m_prev_table  |-> Grid(m, n, None),
     i_prev_table  |-> Grid(m, n, None),
     d_prev_table  |-> Grid(m, n, None),
     f_score_table |-> [Grid(m, n, NegInf) EXCEPT ![<<0, 0>>] = 0],
     f_prev_table  |-> Grid(m, n, None)]

\* lines 115-116: body of the first-column loop
InitColumnCell(T, alpha, beta, ci) ==
    [T EXCEPT !.d_score_table[<<ci, 0>>] = alpha + (ci - 1) * beta,
              !.d_prev_table[<<ci, 0>>] = <<2, ci - 1, 0>>]

\* Variant of InitRowCell that counts one extension too many (alpha + j * beta).
InitRowCellOffByOne(T, alpha, beta, cj) ==
    [T EXCEPT !.i_score_table[<<0, cj>>] = alpha + cj * beta,
              !.i_prev_table[<<0, cj>>] = <<1, 0, cj - 1>>]

\* lines 119-120: body of the first-row loop
InitRowCell(T, alpha, beta, cj) ==
    [T EXCEPT !.i_score_table[<<0, cj>>] = alpha + (cj - 1) * beta,
              !.i_prev_table[<<0, cj>>] = <<1, 0, cj - 1>>]

\* Variant of MatchCell that only looks at the Match predecessor.
MatchCellFromMatchOnly(T, s, ci, cj) ==
    [T EXCEPT !.m_score_table[<<ci, cj>>] = Plus(T.m_score_table[<<ci - 1, cj - 1>>], s),
              !.m_prev_table[<<ci, cj>>] = <<0, ci - 1, cj - 1>>]

\* lines 127-135: Match recurrence
MatchCell(T, s, ci, cj) ==
    LET match_options == {<<T.m_score_table[<<ci - 1, cj - 1>>], 0>>,
                          <<T.i_score_table[<<ci - 1, cj - 1>>], 1>>,
                          <<T.d_score_table[<<ci - 1, cj - 1>>], 2>>}
        best == MaxTuple({<<Plus(o[1], s), o[2]>> : o \in match_options})
    IN [T EXCEPT !.m_score_table[<<ci, cj>>] = best[1],
                 !.m_prev_table[<<ci, cj>>] = <<best[2], ci - 1, cj - 1>>]

\* Variant of InsertCell that subtracts the gap-open score instead of adding it.
InsertCellSubtractsAlpha(T, alpha, beta, ci, cj) ==
    LET from_m == Plus(T.m_score_table[<<ci, cj - 1>>], 0 - alpha)
        from_i == Plus(T.i_score_table[<<ci, cj - 1>>], beta)
    IN IF from_m >= from_i
       THEN [T EXCEPT !.i_score_table[<<ci, cj>>] = from_m,
                      !.i_prev_table[<<ci, cj>>] = <<0, ci, cj - 1>>]
       ELSE [T EXCEPT !.i_score_table[<<ci, cj>>] = from_i,
                      !.i_prev_table[<<ci, cj>>] = <<1, ci, cj - 1>>]

\* lines 137-145: Insertion recurrence
InsertCell(T, alpha, beta, ci, cj) ==
    LET from_m == Plus(T.m_score_table[<<ci, cj - 1>>], alpha)
        from_i == Plus(T.i_score_table[<<ci, cj - 1>>], beta)
    IN IF from_m >= from_i
       THEN [T EXCEPT !.i_score_table[<<ci, cj>>] = from_m,
                      !.i_prev_table[<<ci, cj>>] = <<0, ci, cj - 1>>]
       ELSE [T EXCEPT !.i_score_table[<<ci, cj>>] = from_i,
                      !.i_prev_table[<<ci, cj>>] = <<1, ci, cj - 1>>]

\* Variant of DeleteCell that records the diagonal cell (i-1, j-1) as predecessor.
DeleteCellDiagonalPredecessor(T, alpha, beta, ci, cj) ==
    LET from_m == Plus(T.m_score_table[<<ci - 1, cj>>], alpha)
        from_d == Plus(T.d_score_table[<<ci - 1, cj>>], beta)
    IN IF from_m >= from_d
       THEN [T EXCEPT !.d_score_table[<<ci, cj>>] = from_m,
                      !.d_prev_table[<<ci, cj>>] = <<0, ci - 1, cj - 1>>]
       ELSE [T EXCEPT !.d_score_table[<<ci, cj>>] = from_d,
                      !.d_prev_table[<<ci, cj>>] = <<2, ci - 1, cj - 1>>]

\* Variant of DeleteCell that charges the gap-open score for an extension too.
DeleteCellExtendAtOpenCost(T, alpha, beta, ci, cj) ==
    LET from_m == Plus(T.m_score_table[<<ci - 1, cj>>], alpha)
        from_d == Plus(T.d_score_table[<<ci - 1, cj>>], alpha)
    IN IF from_m >= from_d
       THEN [T EXCEPT !.d_score_table[<<ci, cj>>] = from_m,
                      !.d_prev_table[<<ci, cj>>] = <<0, ci - 1, cj>>]
       ELSE [T EXCEPT !.d_score_table[<<ci, cj>>] = from_d,
                      !.d_prev_table[<<ci, cj>>] = <<2, ci - 1, cj>>]

\* lines 147-155: Deletion recurrence
DeleteCell(T, alpha, beta, ci, cj) ==
    LET from_m == Plus(T.m_score_table[<<ci - 1, cj>>], alpha)
        from_d == Plus(T.d_score_table[<<ci - 1, cj>>], beta)
    IN IF from_m >= from_d
       THEN [T EXCEPT !.d_score_table[<<ci, cj>>] = from_m,
                      !.d_prev_table[<<ci, cj>>] = <<0, ci - 1, cj>>]
       ELSE [T EXCEPT !.d_score_table[<<ci, cj>>] = from_d,
                      !.d_prev_table[<<ci, cj>>] = <<2, ci - 1, cj>>]

\* Variant of FinalCell that reports the Match score whatever the gap states hold.
FinalCellMatchOnly(T, ci, cj) ==
    [T EXCEPT !.f_score_table[<<ci, cj>>] = T.m_score_table[<<ci, cj>>],
              !.f_prev_table[<<ci, cj>>] = <<0, ci, cj>>]

\* lines 157-165: final table F(i, j)
FinalCell(T, ci, cj) ==
    LET final_scores == {<<T.m_score_table[<<ci, cj>>], 0>>,
                         <<T.i_score_table[<<ci, cj>>], 1>>,
                         <<T.d_score_table[<<ci, cj>>], 2>>}
        best == MaxTuple(final_scores)
    IN [T EXCEPT !.f_score_table[<<ci, cj>>] = best[1],
                 !.f_prev_table[<<ci, cj>>] = <<best[2], ci, cj>>]

\* lines 125-165: the whole body of the inner loop, s already looked up
FillCell(T, s, alpha, beta, ci, cj) ==
    FinalCell(DeleteCell(InsertCell(MatchCell(T, s, ci, cj), alpha, beta, ci, cj),
                         alpha, beta, ci, cj), ci, cj)

RECURSIVE InitColumnLoop(_, _, _, _, _)
InitColumnLoop(T, alpha, beta, ci, m) ==
    IF ci > m THEN T
    ELSE InitColumnLoop(InitColumnCell(T, alpha, beta, ci), alpha, beta, ci + 1, m)

RECURSIVE InitRowLoop(_, _, _, _, _)
InitRowLoop(T, alpha, beta, cj, n) ==
    IF cj > n THEN T
    ELSE InitRowLoop(InitRowCell(T, alpha, beta, cj), alpha, beta, cj + 1, n)

\* lines 123-165: row-major double loop, from cell (ci, cj) on
RECURSIVE FillLoop(_, _, _, _, _, _)
FillLoop(T, xs, ys, sc, ci, cj) ==
    IF ci > Len(xs) \/ Len(ys) = 0 THEN T
    ELSE LET T1 == FillCell(T, sc.sub[<<xs[ci], ys[cj]>>], sc.gap["alpha"], sc.gap["beta"], ci, cj)
         IN IF cj < Len(ys) THEN FillLoop(T1, xs, ys, sc, ci, cj + 1)
            ELSE FillLoop(T1, xs, ys, sc, ci + 1, 1)

\* fill_dp_table as a function of its arguments, for a scoring model that
\* holds every key the call reads.
fill_dp_table(xs, ys, sc) ==
    LET m == Len(xs)
        n == Len(ys)
        alpha == sc.gap["alpha"]
        beta == sc.gap["beta"]
        T0 == AllocateTables(m, n)
        T1 == InitColumnLoop(T0, alpha, beta, 1, m)
        T2 == InitRowLoop(T1, alpha, beta, 1, n)
    IN FillLoop(T2, xs, ys, sc, 1, 1)

(***************************************************************************)
(* traceback_alignment_from_f_table.  A walk state W is the record of the  *)
(* function's locals plus err, the exception raised ("" for none).         *)
(***************************************************************************)
\* lines 190-198
TracebackStart(T, xs, ys) ==
    LET start == T.f_prev_table[<<Len(xs), Len(ys)>>]
    IN IF start = None
       THEN [err |-> "TypeError", k |-> 0, i |-> 0, j |-> 0, path |-> <<>>,
             aligned_x |-> <<>>, aligned_y |-> <<>>, final_score |-> 0]
       ELSE [err |-> "", k |-> start[1], i |-> start[2], j |-> start[3],
             path |-> <<<<start[2], start[3], start[1]>>>>,
             aligned_x |-> <<>>, aligned_y |-> <<>>,
             final_score |-> T.f_score_table[<<Len(xs), Len(ys)>>]]

\* x[prev_i]: Python indexing, negative indices counting from the end
PyIndexOk(s, idx) == idx < Len(s) /\ idx >= 0 - Len(s)

PyIndex(s, idx) == IF idx >= 0 THEN s[idx + 1] ELSE s[Len(s) + idx + 1]

\* lines 201-217: one iteration of the while loop
TracebackStep(T, xs, ys, W) ==
    LET prev == IF W.k = 0 THEN T.m_prev_table[<<W.i, W.j>>]
                ELSE IF W.k = 1 THEN T.i_prev_table[<<W.i, W.j>>]
                ELSE IF W.k = 2 THEN T.d_prev_table[<<W.i, W.j>>]
                ELSE None
    IN IF W.k \notin {0, 1, 2} THEN [W EXCEPT !.err = "ValueError"]
       ELSE IF prev = None THEN [W EXCEPT !.err = "TypeError"]
       ELSE IF W.k # 1 /\ ~PyIndexOk(xs, prev[2]) THEN [W EXCEPT !.err = "IndexError"]
       ELSE IF W.k # 2 /\ ~PyIndexOk(ys, prev[3]) THEN [W EXCEPT !.err = "IndexError"]
       ELSE [W EXCEPT
               !.aligned_x = Append(@, IF W.k = 1 THEN "-" ELSE PyIndex(xs, prev[2])),
               !.aligned_y = Append(@, IF W.k = 2 THEN "-" ELSE PyIndex(ys, prev[3])),
               !.i = prev[2], !.j = prev[3], !.k = prev[1],
               !.path = Append(@, <<prev[2], prev[3], prev[1]>>)]

\* lines 220-222
TracebackReverse(W) ==
    [W EXCEPT !.aligned_x = Reverse(@), !.aligned_y = Reverse(@), !.path = Reverse(@)]

RECURSIVE TracebackLoop(_, _, _, _)
TracebackLoop(T, xs, ys, W) ==
    IF W.err # "" THEN W
    ELSE IF W.i > 0 \/ W.j > 0 THEN TracebackLoop(T, xs, ys, TracebackStep(T, xs, ys, W))
    ELSE TracebackReverse(W)

\* traceback_alignment_from_f_table as a function of the tables and sequences
traceback_alignment_from_f_table(T, xs, ys) == TracebackLoop(T, xs, ys, TracebackStart(T, xs, ys))

\* the main block: fill, then traceback
Align(xs, ys, sc) == traceback_alignment_from_f_table(fill_dp_table(xs, ys, sc), xs, ys)

(***************************************************************************)
(* fill_dp_table of the linear-gap script (Pairwise_Alignment/task.py).    *)
(* Only the score table is modelled; delta is score["delta"].              *)
(***************************************************************************)
\* Variant of Max3 that leaves the insertion candidate out.
Max3WithoutInsert(a, b, c) == IF a >= b THEN a ELSE b

\* line 100: max(match, delete, insert)
Max3(a, b, c) ==
    IF a >= b /\ a >= c THEN a ELSE IF b >= c THEN b ELSE c

linear_fill_dp_table(xs, ys, sub, delta) ==
    LET score_table[cell \in (0..Len(xs)) \X (0..Len(ys))] ==
            LET ci == cell[1]
                cj == cell[2]
            IN IF ci = 0 /\ cj = 0 THEN 0
               ELSE IF cj = 0 THEN score_table[<<ci - 1, 0>>] + delta
               ELSE IF ci = 0 THEN score_table[<<0, cj - 1>>] + delta
               ELSE LET match == score_table[<<ci - 1, cj - 1>>] + sub[<<xs[ci], ys[cj]>>]
                        delete == score_table[<<ci - 1, cj>>] + delta
                        insert == score_table[<<ci, cj - 1>>] + delta
                    IN Max3(match, delete, insert)
    IN score_table

(***************************************************************************)
(* The program as a state machine: fill_dp_table step by step, then the    *)
(* traceback.  pc is the position in the script.                           *)
(***************************************************************************)
Tables ==
    [m_score_table |-> m_score_table, i_score_table |-> i_score_table,
     d_score_table |-> d_score_table, m_prev_table |-> m_prev_table,
     i_prev_table |-> i_prev_table, d_prev_table |-> d_prev_table,
     f_score_table |-> f_score_table, f_prev_table |-> f_prev_table]

Walk ==
    [err |-> "", k |-> k, i |-> i, j |-> j, path |-> path,
     aligned_x |-> aligned_x, aligned_y |-> aligned_y, final_score |-> final_score]

SetTables(T) ==
    /\ m_score_table' = T.m_score_table
    /\ i_score_table' = T.i_score_table
    /\ d_score_table' = T.d_score_table
    /\ m_prev_table' = T.m_prev_table
    /\ i_prev_table' = T.i_prev_table
    /\ d_prev_table' = T.d_prev_table
    /\ f_score_table' = T.f_score_table
    /\ f_prev_table' = T.f_prev_table

SetWalk(W) ==
    /\ k' = W.k
    /\ i' = W.i
    /\ j' = W.j
    /\ path' = W.path
    /\ aligned_x' = W.aligned_x
    /\ aligned_y' = W.aligned_y
    /\ final_score' = W.final_score

tableVars == <<m_score_table, i_score_table, d_score_table, m_prev_table,
               i_prev_table, d_prev_table, f_score_table, f_prev_table>>

walkVars == <<path, aligned_x, aligned_y, final_score>>

inputVars == <<x, y, score>>

m == Len(x)

n == Len(y)

alpha == score.gap["alpha"]

beta == score.gap["beta"]

Init ==
    /\ \/ /\ \E p \in InputPairs : x = p[1] /\ y = p[2]
          /\ score \in ScoringModels
       \/ /\ x = ScenarioX
          /\ y = ScenarioY
          /\ score = ScenarioScore
    /\ pc = "read_gaps"
    /\ i = 0 /\ j = 0 /\ k = 0
    /\ m_score_table = Unallocated /\ i_score_table = Unallocated
    /\ d_score_table = Unallocated /\ m_prev_table = Unallocated
    /\ i_prev_table = Unallocated /\ d_prev_table = Unallocated
    /\ f_score_table = Unallocated /\ f_prev_table = Unallocated
    /\ path = <<>> /\ aligned_x = <<>> /\ aligned_y = <<>>
    /\ final_score = 0

\* lines 92-94: score["alpha"], score["beta"]
ReadGaps ==
    /\ pc = "read_gaps"
    /\ GapKeys \subseteq DOMAIN score.gap
    /\ pc' = "allocate"
    /\ UNCHANGED <<inputVars, i, j, k, tableVars, walkVars>>

\* lines 93-94 with the key absent: KeyError out of fill_dp_table
ReadGapsKeyError ==
    /\ pc = "read_gaps"
    /\ ~(GapKeys \subseteq DOMAIN score.gap)
    /\ pc' = "KeyError"
    /\ UNCHANGED <<inputVars, i, j, k, tableVars, walkVars>>

\* lines 97-112
Allocate ==
    /\ pc = "allocate"
    /\ SetTables(AllocateTables(m, n))
    /\ pc' = "init_column"
    /\ i' = 1
    /\ UNCHANGED <<inputVars, j, k, walkVars>>

\* lines 114-116, one iteration; on exhaustion control passes to line 118
InitColumn ==
    /\ pc = "init_column"
    /\ IF i <= m
       THEN /\ SetTables(InitColumnCell(Tables, alpha, beta, i))
            /\ i' = i + 1
            /\ UNCHANGED <<pc, j>>
       ELSE /\ pc' = "init_row"
            /\ j' = 1
            /\ UNCHANGED <<i, tableVars>>
    /\ UNCHANGED <<inputVars, k, walkVars>>

\* lines 118-120, one iteration; on exhaustion control passes to line 123
InitRow ==
    /\ pc = "init_row"
    /\ IF j <= n
       THEN /\ SetTables(InitRowCell(Tables, alpha, beta, j))
            /\ j' = j + 1
            /\ UNCHANGED <<pc, i>>
       ELSE /\ pc' = IF m >= 1 /\ n >= 1 THEN "fill" ELSE "traceback"
            /\ i' = 1
            /\ j' = 1
            /\ UNCHANGED tableVars
    /\ UNCHANGED <<inputVars, k, walkVars>>

\* lines 124-165: one iteration of the inner loop at (i, j)
Fill ==
    /\ pc = "fill"
    /\ <<x[i], y[j]>> \in DOMAIN score.sub
    /\ SetTables(FillCell(Tables, score.sub[<<x[i], y[j]>>], alpha, beta, i, j))
    /\ IF j < n THEN /\ j' = j + 1
                     /\ UNCHANGED <<i, pc>>
       ELSE IF i < m THEN /\ i' = i + 1
                          /\ j' = 1
                          /\ UNCHANGED pc
       ELSE /\ pc' = "traceback"
            /\ UNCHANGED <<i, j>>
    /\ UNCHANGED <<inputVars, k, walkVars>>

\* line 125 with the pair absent: KeyError out of fill_dp_table
FillKeyError ==
    /\ pc = "fill"
    /\ <<x[i], y[j]>> \notin DOMAIN score.sub
    /\ pc' = "KeyError"
    /\ UNCHANGED <<inputVars, i, j, k, tableVars, walkVars>>

\* lines 190-198; unpacking None raises TypeError
TracebackInit ==
    /\ pc = "traceback"
    /\ LET W == TracebackStart(Tables, x, y)
       IN /\ SetWalk(W)
          /\ pc' = IF W.err # "" THEN W.err ELSE "walk"
    /\ UNCHANGED <<inputVars, tableVars>>

\* lines 200-217, one iteration of the while loop
TracebackWalk ==
    /\ pc = "walk"
    /\ i > 0 \/ j > 0
    /\ LET W == TracebackStep(Tables, x, y, Walk)
       IN /\ SetWalk(W)
          /\ pc' = IF W.err # "" THEN W.err ELSE "walk"
    /\ UNCHANGED <<inputVars, tableVars>>

\* lines 220-222 and the return of line 267
TracebackFinish ==
    /\ pc = "walk"
    /\ ~(i > 0 \/ j > 0)
    /\ SetWalk(TracebackReverse(Walk))
    /\ pc' = "done"
    /\ UNCHANGED <<inputVars, tableVars>>

Next ==
    \/ ReadGaps
    \/ ReadGapsKeyError
    \/ Allocate
    \/ InitColumn
    \/ InitRow
    \/ Fill
    \/ FillKeyError
    \/ TracebackInit
    \/ TracebackWalk
    \/ TracebackFinish

Spec == Init /\ [][Next]_vars

Terminal == {"done", "KeyError", "TypeError", "ValueError", "IndexError"}

Total == ScoreTotal(x, y, score)

\* The state machine and the functional composition agree on every run.
StepwiseAgrees ==
    /\ (pc \in {"traceback", "walk", "done"}) => Tables = fill_dp_table(x, y, score)
    /\ (pc = "done") =>
         LET R == Align(x, y, score)
         IN /\ R.err = ""
            /\ R.aligned_x = aligned_x /\ R.aligned_y = aligned_y
            /\ R.path = path /\ R.final_score = final_score

(***************************************************************************)
(* Notions the claims are stated in.                                       *)
(***************************************************************************)
NonEmpty == m >= 1 /\ n >= 1

\* s with every gap marker deleted
RECURSIVE Degap(_)
Degap(s) ==
    IF s = <<>> THEN <<>>
    ELSE IF Head(s) = "-" THEN Degap(Tail(s)) ELSE <<Head(s)>> \o Degap(Tail(s))

\* Score of column c of an alignment: S(a,b) for two symbols; for a gap
\* marker alpha when it opens a maximal run of markers in its string, beta
\* when the column before holds a marker of the same string.
ColumnScore(ax, ay, sc, c) ==
    IF ax[c] # "-" /\ ay[c] # "-" THEN sc.sub[<<ax[c], ay[c]>>]
    ELSE LET g == IF ax[c] = "-" THEN ax ELSE ay
         IN IF c > 1 /\ g[c - 1] = "-" THEN sc.gap["beta"] ELSE sc.gap["alpha"]

RECURSIVE SumColumns(_, _, _, _)
SumColumns(ax, ay, sc, c) ==
    IF c = 0 THEN 0 ELSE SumColumns(ax, ay, sc, c - 1) + ColumnScore(ax, ay, sc, c)

\* Score of an alignment recomputed from its two strings
Rescore(ax, ay, sc) == SumColumns(ax, ay, sc, Len(ax))

SetMax(S) == CHOOSE v \in S : \A w \in S : w <= v

\* PathSums[<<state, ci, cj>>]: the totals of all paths from (Match,0,0) to
\* the cell that use only the allowed transitions, by enumeration.
PathSums(xs, ys, sc) ==
    LET R[c \in {0, 1, 2} \X (0..Len(xs)) \X (0..Len(ys))] ==
            LET st == c[1]
                ci == c[2]
                cj == c[3]
            IN IF st = 0
               THEN IF ci = 0 /\ cj = 0 THEN {0}
                    ELSE IF ci >= 1 /\ cj >= 1
                    THEN {t + sc.sub[<<xs[ci], ys[cj]>>] :
                            t \in R[<<0, ci - 1, cj - 1>>] \cup R[<<1, ci - 1, cj - 1>>]
                                  \cup R[<<2, ci - 1, cj - 1>>]}
                    ELSE {}
               ELSE IF st = 1
               THEN IF cj >= 1
                    THEN {t + sc.gap["alpha"] : t \in R[<<0, ci, cj - 1>>]}
                         \cup {t + sc.gap["beta"] : t \in R[<<1, ci, cj - 1>>]}
                    ELSE {}
               ELSE IF ci >= 1
                    THEN {t + sc.gap["alpha"] : t \in R[<<0, ci - 1, cj>>]}
                         \cup {t + sc.gap["beta"] : t \in R[<<2, ci - 1, cj>>]}
                    ELSE {}
    IN R

\* The totals of the paths ending at (m, n) in any state
EndSums(xs, ys, sc) ==
    LET R == PathSums(xs, ys, sc)
    IN R[<<0, Len(xs), Len(ys)>>] \cup R[<<1, Len(xs), Len(ys)>>] \cup R[<<2, Len(xs), Len(ys)>>]

(***************************************************************************)
(* Claims.                                                                 *)
(***************************************************************************)
\* C1: for non-empty X and Y and a scoring model total over their symbols the
\* run ends normally and the final score returned by the traceback equals the
\* score recomputed from the two aligned strings (S(a,b) per column of two
\* symbols, alpha for the first marker of a gap run, beta for each further one).
C1_ScoreMatchesAlignment ==
    (NonEmpty /\ Total /\ pc \in Terminal) =>
        /\ pc = "done"
        /\ Len(aligned_x) = Len(aligned_y)
        /\ final_score = Rescore(aligned_x, aligned_y, score)

\* A finished run whose alignment holds a gap run of two markers (an opening
\* and an extension, priced differently) and a column of two symbols.
C1_Witness ==
    /\ pc = "done" /\ NonEmpty /\ alpha # beta
    /\ \E c \in 1..(Len(aligned_x) - 1) :
          \/ aligned_x[c] = "-" /\ aligned_x[c + 1] = "-"
          \/ aligned_y[c] = "-" /\ aligned_y[c + 1] = "-"
    /\ \E c \in 1..Len(aligned_x) : aligned_x[c] # "-" /\ aligned_y[c] # "-"

\* C2 (as claimed): for all inputs X and Y, an empty one included, fill and
\* traceback produce aligned strings of equal length whose symbols, gap markers
\* deleted, are exactly X and exactly Y.
C2_AlignmentReconstructsInputs ==
    (Total /\ pc \in Terminal) =>
        /\ pc = "done"
        /\ Len(aligned_x) = Len(aligned_y)
        /\ Degap(aligned_x) = x
        /\ Degap(aligned_y) = y

\* C3 (as claimed): aligning a sequence of length >= 1 against the empty
\* sequence completes with final score alpha + (len - 1) * beta and an all-gap
\* alignment; aligning two empty sequences completes with final score 0.
C3_EmptySideBaseCase ==
    (Total /\ (m = 0 \/ n = 0) /\ pc \in Terminal) =>
        /\ pc = "done"
        /\ final_score = IF m + n = 0 THEN 0 ELSE alpha + (m + n - 1) * beta
        /\ Len(aligned_x) = m + n /\ Len(aligned_y) = m + n
        /\ \A c \in 1..(m + n) : IF n = 0 THEN aligned_y[c] = "-" ELSE aligned_x[c] = "-"

IsScenario == x = ScenarioX /\ y = ScenarioY /\ score = ScenarioScore

\* C4: for X = "AC", Y = "AGC", S(a,a) = 2, S(a,b) = -1, alpha = -2, beta = -1
\* the run ends normally with score 2 and aligned strings "A-C" and "AGC".
C4_ConcreteScenario ==
    (IsScenario /\ pc \in Terminal) =>
        /\ pc = "done"
        /\ final_score = 2
        /\ aligned_x = <<"A", "-", "C">>
        /\ aligned_y = <<"A", "G", "C">>

C4_Witness == IsScenario /\ pc = "done" /\ path = <<<<0, 0, 0>>, <<1, 1, 0>>, <<1, 2, 1>>, <<2, 3, 0>>>>

\* C5: for non-empty X and Y the score reported is the largest of the three
\* state scores at (m, n) and is the optimum: the maximum total over all paths
\* from (Match,0,0) to (m, n) built from the allowed transitions.
C5_ScoreIsOptimum ==
    (NonEmpty /\ pc = "done") =>
        /\ final_score = SetMax({m_score_table[<<m, n>>], i_score_table[<<m, n>>],
                                 d_score_table[<<m, n>>]})
        /\ final_score = SetMax(EndSums(x, y, score))

\* A finished run where the optimum ends in a gap state, beating the best path
\* that ends in Match, among at least three different path totals.
C5_Witness ==
    /\ pc = "done" /\ NonEmpty
    /\ final_score > m_score_table[<<m, n>>]
    /\ Cardinality(EndSums(x, y, score)) >= 3

\* The decisions of the fill at the interior cells, each a pair <<tied, chosen>>:
\* the states whose candidates tie for a finite maximum, and the state recorded.
TiedStates(cands) ==
    LET best == SetMax({c[1] : c \in cands})
    IN IF best = NegInf THEN {} ELSE {c[2] : c \in {d \in cands : d[1] = best}}

TieDecisions(T, xs, ys, sc) ==
    LET a == sc.gap["alpha"]
        b == sc.gap["beta"]
        Cells == (1..Len(xs)) \X (1..Len(ys))
        MatchAt(c) ==
            <<TiedStates({<<Plus(T.m_score_table[<<c[1] - 1, c[2] - 1>>], sc.sub[<<xs[c[1]], ys[c[2]]>>]), 0>>,
                          <<Plus(T.i_score_table[<<c[1] - 1, c[2] - 1>>], sc.sub[<<xs[c[1]], ys[c[2]]>>]), 1>>,
                          <<Plus(T.d_score_table[<<c[1] - 1, c[2] - 1>>], sc.sub[<<xs[c[1]], ys[c[2]]>>]), 2>>}),
              T.m_prev_table[c][1]>>
        InsertAt(c) ==
            <<TiedStates({<<Plus(T.m_score_table[<<c[1], c[2] - 1>>], a), 0>>,
                          <<Plus(T.i_score_table[<<c[1], c[2] - 1>>], b), 1>>}),
              T.i_prev_table[c][1]>>
        DeleteAt(c) ==
            <<TiedStates({<<Plus(T.m_score_table[<<c[1] - 1, c[2]>>], a), 0>>,
                          <<Plus(T.d_score_table[<<c[1] - 1, c[2]>>], b), 2>>}),
              T.d_prev_table[c][1]>>
        FinalAt(c) ==
            <<TiedStates({<<T.m_score_table[c], 0>>, <<T.i_score_table[c], 1>>,
                          <<T.d_score_table[c], 2>>}),
              T.f_prev_table[c][1]>>
    IN {MatchAt(c) : c \in Cells} \cup {InsertAt(c) : c \in Cells}
       \cup {DeleteAt(c) : c \in Cells} \cup {FinalAt(c) : c \in Cells}

\* The strict priority orders over the three states, as rank functions.
PriorityOrders == {r \in [{0, 1, 2} -> 1..3] : r[0] # r[1] /\ r[1] # r[2] /\ r[0] # r[2]}

\* C6 (as claimed): one fixed priority order over {Match, InsertY, DeleteX}
\* explains every tie-break of a fill: in the Match, InsertY and DeleteX
\* recurrences and in the choice of the terminal state, the state recorded is
\* the tied candidate ranking highest in that one order.
C6_SinglePriorityOrder ==
    (Total /\ pc = "traceback") =>
        \E r \in PriorityOrders :
            \A d \in TieDecisions(Tables, x, y, score) : \A t \in d[1] : r[d[2]] >= r[t]

\* The score of the linear-gap engine on the same sequences and matrix with
\* gap penalty delta = alpha.
LinearScore == linear_fill_dp_table(x, y, score.sub, alpha)[<<m, n>>]

\* Every substitution score met by the fill is at least two gap steps.
MismatchNoWorseThanTwoGaps ==
    \A a \in 1..m, b \in 1..n : score.sub[<<x[a], y[b]>>] >= 2 * alpha

\* C7 (as claimed, on non-empty sequences): with alpha = beta = delta the final
\* score of the affine fill equals the final score of the linear-gap fill.
C7_LinearGapRecovered ==
    (NonEmpty /\ Total /\ alpha = beta /\ pc = "traceback") =>
        f_score_table[<<m, n>>] = LinearScore

\* C7 (amended): with alpha = beta = delta the affine final score never exceeds
\* the linear-gap final score, on every input; the two are equal when both
\* sequences are empty, and when both are non-empty and every substitution
\* score S(x[i], y[j]) is at least 2 * delta.
C7_AffineAtMostLinear ==
    (Total /\ alpha = beta /\ pc = "traceback") =>
        /\ f_score_table[<<m, n>>] <= LinearScore
        /\ (m + n = 0) => f_score_table[<<m, n>>] = LinearScore
        /\ (NonEmpty /\ MismatchNoWorseThanTwoGaps) => f_score_table[<<m, n>>] = LinearScore

\* A filled table for sequences of different lengths, so that the linear optimum
\* needs gaps, with a mismatching pair that is still no worse than two gaps.
C7_Witness ==
    /\ pc = "traceback" /\ Total /\ alpha = beta /\ NonEmpty /\ m # n
    /\ MismatchNoWorseThanTwoGaps
    /\ \E a \in 1..m, b \in 1..n : score.sub[<<x[a], y[b]>>] < 0
    /\ f_score_table[<<m, n>>] = LinearScore

AllTablesUnallocated ==
    /\ m_score_table = Unallocated /\ i_score_table = Unallocated
    /\ d_score_table = Unallocated /\ m_prev_table = Unallocated
    /\ i_prev_table = Unallocated /\ d_prev_table = Unallocated
    /\ f_score_table = Unallocated /\ f_prev_table = Unallocated

\* C8 (as claimed): when a missing entry of the scoring model (a substitution
\* pair, alpha or beta) makes fill_dp_table raise, no score or predecessor
\* table has been allocated or written.
C8_AbortBeforeTableWork == (pc = "KeyError") => AllTablesUnallocated

Symmetric(sc) ==
    \A p \in DOMAIN sc.sub :
        <<p[2], p[1]>> \in DOMAIN sc.sub /\ sc.sub[<<p[2], p[1]>>] = sc.sub[p]

\* C9 (as claimed): for non-empty X, Y and a symmetric matrix, aligning (Y, X)
\* gives the score of aligning (X, Y) and the aligned strings of (X, Y) swapped.
C9_SymmetrySwapsStrings ==
    (NonEmpty /\ Total /\ Symmetric(score) /\ pc = "done") =>
        LET R == Align(y, x, score)
        IN /\ R.err = ""
           /\ R.final_score = final_score
           /\ R.aligned_x = aligned_y
           /\ R.aligned_y = aligned_x

\* C9 (amended): for non-empty X, Y and a symmetric matrix, aligning (Y, X)
\* gives the score of aligning (X, Y), and its aligned strings, swapped, are an
\* alignment of (X, Y) whose recomputed score is that same score.
C9_SymmetryScore ==
    (NonEmpty /\ Total /\ Symmetric(score) /\ pc = "done") =>
        LET R == Align(y, x, score)
        IN /\ R.err = ""
           /\ R.final_score = final_score
           /\ Len(R.aligned_x) = Len(R.aligned_y)
           /\ Degap(R.aligned_y) = x
           /\ Degap(R.aligned_x) = y
           /\ Rescore(R.aligned_y, R.aligned_x, score) = final_score

\* A finished run on different sequences whose mirrored run reports strings
\* that are not the swap of this run's strings.
C9_Witness ==
    /\ pc = "done" /\ NonEmpty /\ Total /\ Symmetric(score) /\ x # y
    /\ LET R == Align(y, x, score)
       IN R.err = "" /\ <<R.aligned_y, R.aligned_x>> # <<aligned_x, aligned_y>>

\* Gap scores at most the ones drawn for a run, down to two below GapVals.
LowerGaps == {g - d : g \in GapVals, d \in 0..2}

ScoreWithGaps(a2, b2) ==
    fill_dp_table(x, y, [score EXCEPT !.gap = [key \in GapKeys |-> IF key = "alpha" THEN a2 ELSE b2]])
        .f_score_table[<<m, n>>]

\* C10: for non-empty X, Y and a fixed matrix, replacing alpha by alpha' <= alpha
\* and beta by beta' <= beta never increases the score the affine engine reports.
C10_GapMonotone ==
    (NonEmpty /\ Total /\ pc = "done") =>
        \A a2 \in LowerGaps, b2 \in LowerGaps :
            (a2 <= alpha /\ b2 <= beta) => ScoreWithGaps(a2, b2) <= final_score

\* A finished run whose score strictly drops under a cheaper alpha alone and
\* under a cheaper beta alone.
C10_Witness ==
    /\ pc = "done" /\ NonEmpty /\ Total
    /\ ScoreWithGaps(alpha - 1, beta) < final_score
    /\ ScoreWithGaps(alpha, beta - 1) < final_score

\* C11 (as claimed): every traceback ends at the origin in state Match: when
\* the walk stops, i = 0, j = 0 and the state is Match, so the reported path
\* starts with the cell (Match,0,0) and no traceback reaches (0,0) in state
\* InsertY or DeleteX.  Path entries are (i, j, k) triples: (Match,0,0) is
\* <<0, 0, 0>>.
C11_EndsAtMatchOrigin ==
    (NonEmpty /\ Total /\ pc = "done") =>
        /\ i = 0 /\ j = 0 /\ k = 0
        /\ path[1] = <<0, 0, 0>>

\* The score table of a state number
ScoreOf(st, c) ==
    IF st = 0 THEN m_score_table[c] ELSE IF st = 1 THEN i_score_table[c] ELSE d_score_table[c]

\* The predecessor entry pred, whose candidate states are cands, does not name
\* an unreachable cell while a candidate of finite score exists at that cell.
ReachablePreferred(pred, cands) ==
    (\E st \in cands : ScoreOf(st, <<pred[2], pred[3]>>) # NegInf)
        => ScoreOf(pred[1], <<pred[2], pred[3]>>) # NegInf

\* Every predecessor entry of an InsertY cell names Match or InsertY and every
\* one of a DeleteX cell names Match or DeleteX; in a reported path an InsertY
\* entry and a DeleteX entry are never consecutive, nor are a gap column of X
\* and a gap column of Y in the aligned strings.
SwitchFree ==
    /\ \A c \in DOMAIN i_prev_table : i_prev_table[c] # None => i_prev_table[c][1] \in {0, 1}
    /\ \A c \in DOMAIN d_prev_table : d_prev_table[c] # None => d_prev_table[c][1] \in {0, 2}
    /\ (pc = "done") =>
          /\ \A t \in 1..(Len(path) - 1) : {path[t][3], path[t + 1][3]} # {1, 2}
          /\ \A c \in 1..(Len(aligned_x) - 1) :
                /\ ~(aligned_x[c] = "-" /\ aligned_y[c + 1] = "-")
                /\ ~(aligned_y[c] = "-" /\ aligned_x[c + 1] = "-")

\* No predecessor entry names an unreachable cell when a candidate of finite
\* score exists.
UnreachableNeverChosen ==
    /\ \A c \in DOMAIN i_prev_table :
          i_prev_table[c] # None => ReachablePreferred(i_prev_table[c], {0, 1})
    /\ \A c \in DOMAIN d_prev_table :
          d_prev_table[c] # None => ReachablePreferred(d_prev_table[c], {0, 2})
    /\ \A c \in DOMAIN m_prev_table :
          m_prev_table[c] # None => ReachablePreferred(m_prev_table[c], {0, 1, 2})
    /\ \A c \in DOMAIN f_prev_table :
          f_prev_table[c] # None => ReachablePreferred(f_prev_table[c], {0, 1, 2})

\* C12 (as claimed): on non-empty inputs the predecessor entries written by the
\* fill and the reported path make no gap-to-gap switch, and no entry names an
\* unreachable (negative-infinity) cell when a finite candidate exists.
C12_NoGapToGapSwitch ==
    (NonEmpty /\ Total /\ pc = "done") => (SwitchFree /\ UnreachableNeverChosen)

\* The switch-free part of C12 alone, on every filled table and finished run.
SwitchFreeAlways == (Total /\ pc \in {"traceback", "walk", "done"}) => SwitchFree

\* The reachability part of C12 at the cells the recurrences fill (i, j >= 1).
InteriorUnreachableNeverChosen ==
    (Total /\ pc \in {"traceback", "walk", "done"}) =>
        \A c \in (1..m) \X (1..n) :
            /\ ReachablePreferred(i_prev_table[c], {0, 1})
            /\ ReachablePreferred(d_prev_table[c], {0, 2})
            /\ ReachablePreferred(m_prev_table[c], {0, 1, 2})
            /\ ReachablePreferred(f_prev_table[c], {0, 1, 2})

\* A traceback step from path entry (i, j, k) = from to entry to consumes exactly
\* (i-1, j-1) in state Match, (i, j-1) in InsertY, (i-1, j) in DeleteX, and stays
\* inside the tables.
ConsumesExactly(from, to) ==
    /\ from[3] \in {0, 1, 2}
    /\ to[1] = IF from[3] = 1 THEN from[1] ELSE from[1] - 1
    /\ to[2] = IF from[3] = 2 THEN from[2] ELSE from[2] - 1
    /\ to[1] >= 0 /\ to[2] >= 0
    /\ to[1] + to[2] < from[1] + from[2]

\* The steps taken so far, in walk order (the finished path is reversed).
WalkOrder == IF pc = "done" THEN Reverse(path) ELSE path

\* C13: for non-empty X and Y the traceback never raises and takes at most
\* m + n steps; every step moves to the predecessor cell its state consumes
\* ((i-1,j-1) for Match, (i,j-1) for InsertY, (i-1,j) for DeleteX), of strictly
\* smaller i + j; while i > 0 or j > 0 the state is one of the three and the
\* entry about to be read is not None, so the next step is taken without error.
C13_TracebackTerminates ==
    (NonEmpty /\ Total) =>
        /\ pc \notin {"KeyError", "TypeError", "ValueError", "IndexError"}
        /\ (pc \in {"walk", "done"}) =>
              /\ Len(path) - 1 <= m + n
              /\ Len(path) - 1 = Len(aligned_x)
              /\ \A t \in 1..(Len(path) - 1) : ConsumesExactly(WalkOrder[t], WalkOrder[t + 1])
        /\ (pc = "walk" /\ (i > 0 \/ j > 0)) =>
              /\ k \in {0, 1, 2}
              /\ TracebackStep(Tables, x, y, Walk).err = ""
        /\ (pc = "done") => (i = 0 /\ j = 0)

\* A finished run that took m + n - 1 steps, the most a non-empty pair allows,
\* among them a Match, an InsertY and a DeleteX step.
C13_Witness ==
    /\ pc = "done" /\ NonEmpty /\ Total
    /\ Len(path) - 1 = m + n - 1
    /\ \A st \in {0, 1, 2} : \E t \in 2..Len(path) : path[t][3] = st

====
